---------------------------- MODULE Spec2Model ----------------------------
(***************************************************************************)
(* A model of oandapysuite/implementation.py: the CandleCluster class, its *)
(* nested Candle class and the operations the cluster offers (indexing,    *)
(* len, iteration, the manual __next__ cursor, concatenation and history). *)
(*                                                                         *)
(* Objects live in heaps and are named by their position there, so that    *)
(* object identity (two lists holding the same Candle object) is visible:  *)
(*   heap      the Candle objects of the constructed clusters              *)
(*   clusters  the constructed CandleCluster objects                       *)
(*   iters     the live list iterators handed out by __iter__              *)
(*   result    the local variable `result` of the last __add__ call        *)
(*   ret       what the last call returned or raised                       *)
(*                                                                         *)
(* Python values: None and the booleans are the strings "None", "True"     *)
(* and "False"; a Decimal is an integer count of its smallest unit; a      *)
(* string that the code edits (the instrument) is a sequence of            *)
(* characters; a timestamp string is a record of its parsed part and the   *)
(* 11-character suffix the code cuts off.                                  *)
(***************************************************************************)
EXTENDS Integers, Sequences, FiniteSets

VARIABLES heap, clusters, iters, result, ret

vars == <<heap, clusters, iters, result, ret>>

None == "None"
True == "True"
False == "False"

PyBool(b) == IF b THEN True ELSE False

(***************************************************************************)
(* Bounds of the model.                                                    *)
(***************************************************************************)
MaxClusters == 2
MaxIters == 1
MaxInd == 1
MaxIndex == 1
MaxStart == 3
MaxLen == 2
MaxSolo == 1
MaxClose == 3
MaxDeriveLen == 3
MaxHead == 2
MaxExtra == 2
MaxNested == 2
MaxIterLen == 3

(***************************************************************************)
(* decimal.getcontext().prec = 6: every Decimal operation rounds its       *)
(* result to 6 significant digits, ROUND_HALF_EVEN.  D(string) itself is   *)
(* exact.                                                                  *)
(***************************************************************************)
prec == 6

Abs(x) == IF x < 0 THEN -x ELSE x

RECURSIVE Pow10(_)
Pow10(n) == IF n = 0 THEN 1 ELSE 10 * Pow10(n - 1)

RECURSIVE Digits(_)
Digits(x) == IF x < 10 THEN 1 ELSE 1 + Digits(x \div 10)

RoundHalfEven(x, unit) ==
    LET q == x \div unit
        r == x % unit
    IN  IF 2 * r > unit \/ (2 * r = unit /\ q % 2 = 1)
        THEN (q + 1) * unit
        ELSE q * unit

ContextRound(x) ==
    LET a == Abs(x)
        d == Digits(a)
    IN  IF d <= prec THEN x
        ELSE LET v == RoundHalfEven(a, Pow10(d - prec))
             IN  IF x < 0 THEN -v ELSE v

DecimalSub(a, b) == ContextRound(a - b)

(***************************************************************************)
(* oandapysuite.stats.standard_deviation is not part of the sources at     *)
(* hand; it is modelled from its specification: the population standard    *)
(* deviation, failing on an empty sequence.  The value is kept in fixed    *)
(* point, StdScale units to one price unit, rounded down.                  *)
(***************************************************************************)
StdScale == 100

RECURSIVE SumSeq(_)
SumSeq(s) == IF s = <<>> THEN 0 ELSE Head(s) + SumSeq(Tail(s))

RECURSIVE ISqrtBetween(_, _, _)
ISqrtBetween(n, lo, hi) ==
    IF lo = hi THEN lo
    ELSE LET mid == (lo + hi + 1) \div 2
         IN  IF mid <= n \div mid
             THEN ISqrtBetween(n, mid, hi)
             ELSE ISqrtBetween(n, lo, mid - 1)

ISqrt(n) == ISqrtBetween(n, 0, n)

EmptyInput(values) == Len(values) = 0

standard_deviation(values) ==
    LET n == Len(values)
        s1 == SumSeq(values)
        s2 == SumSeq([i \in 1..n |-> values[i] * values[i]])
    IN  ISqrt((n * s2 - s1 * s1) * StdScale * StdScale) \div n

(***************************************************************************)
(* Candle.__init__: one raw candle record to one Candle object.            *)
(***************************************************************************)
StrpTime(timestring) == timestring.stamp

Candle(candledata, ins, gran) ==
    [open |-> candledata.mid.o,
     close |-> candledata.mid.c,
     low |-> candledata.mid.l,
     high |-> candledata.mid.h,
     oc_displacement |-> DecimalSub(candledata.mid.c, candledata.mid.o),
     total_displacement |-> DecimalSub(candledata.mid.h, candledata.mid.l),
     complete |-> PyBool(candledata.complete = "true"),
     time |-> StrpTime(candledata.time),
     volume |-> candledata.volume,
     gran |-> gran,
     instrument |-> ins,
     reversal |-> None,
     is_bull |-> None,
     is_bear |-> None]

Attributes ==
    {"open", "close", "low", "high", "oc_displacement", "total_displacement",
     "complete", "time", "volume", "gran", "instrument", "reversal",
     "is_bull", "is_bear"}

(***************************************************************************)
(* str.replace('/', '_') on the instrument.                                *)
(***************************************************************************)
Replace(s) == [i \in DOMAIN s |-> IF s[i] = "/" THEN "_" ELSE s[i]]

(***************************************************************************)
(* The derivation loop of CandleCluster.__init__ (lines 67-78), run over   *)
(* the list of freshly built Candle objects, index by index: iteration i   *)
(* reads the is_bull that iteration i-1 wrote.  Indices here are 1-based,  *)
(* so the skipped first candle is index 1.                                 *)
(***************************************************************************)
\* IsBullOrEqual: the comparison with a tie counted as bull.
IsBullOrEqual(cur, prev) == cur.close >= prev.close

IsBull(cur, prev) == cur.close > prev.close

\* DeriveStepUnsetFirst: the step with reversal left unset when the previous
\* candle has no direction.
DeriveStepUnsetFirst(cs, i) ==
    LET bull == PyBool(IsBull(cs[i], cs[i - 1]))
        bear == PyBool(~IsBull(cs[i], cs[i - 1]))
        rev == IF cs[i - 1].is_bull = None THEN None
               ELSE IF bull = cs[i - 1].is_bull THEN False ELSE True
    IN  [cs EXCEPT ![i] = [@ EXCEPT !.is_bull = bull,
                                    !.is_bear = bear,
                                    !.reversal = rev]]

DeriveStep(cs, i) ==
    LET bull == PyBool(IsBull(cs[i], cs[i - 1]))
        bear == PyBool(~IsBull(cs[i], cs[i - 1]))
        rev == IF bull = cs[i - 1].is_bull THEN False ELSE True
    IN  [cs EXCEPT ![i] = [@ EXCEPT !.is_bull = bull,
                                    !.is_bear = bear,
                                    !.reversal = rev]]

RECURSIVE DeriveFrom(_, _)
DeriveFrom(cs, i) ==
    IF i > Len(cs) THEN cs
    ELSE IF i = 1 THEN DeriveFrom(cs, i + 1)
    ELSE DeriveFrom(DeriveStep(cs, i), i + 1)

Derive(cs) == DeriveFrom(cs, 1)

(***************************************************************************)
(* self.candles[-30:], the slice the standard deviation is taken over.     *)
(***************************************************************************)
Window == 30

\* AllCandles: the slice without its limit of 30.
AllCandles(cs) == cs

LastCandles(cs) ==
    LET n == Len(cs)
        start == IF n > Window THEN n - Window ELSE 0
    IN  [i \in 1..(n - start) |-> cs[start + i]]

Closes(cs) == [i \in 1..Len(cs) |-> cs[i].close]

(***************************************************************************)
(* What the last call handed back: its name and arguments, and either the  *)
(* value returned (val is <<v>>, or <<>> for None) or the exception raised *)
(* (val holds the exception's arguments).                                  *)
(***************************************************************************)
Returned(op, args, v) ==
    [op |-> op, args |-> args, kind |-> "return", exc |-> None, val |-> <<v>>]

ReturnedNone(op, args) ==
    [op |-> op, args |-> args, kind |-> "return", exc |-> None, val |-> <<>>]

Raised(op, args, e, eargs) ==
    [op |-> op, args |-> args, kind |-> "raise", exc |-> e, val |-> eargs]

NoCall == [op |-> None, args |-> <<>>, kind |-> None, exc |-> None, val |-> <<>>]

(***************************************************************************)
(* Python list indexing, list[index] with negative indices counted from    *)
(* the end: the 1-based position, or 0 for an IndexError.                  *)
(***************************************************************************)
ListPos(list, index) ==
    LET n == Len(list)
    IN  IF index >= 0 /\ index < n THEN index + 1
        ELSE IF index < 0 /\ index >= -n THEN n + index + 1
        ELSE 0

(***************************************************************************)
(* The Candle object behind a reference.  References up to Len(heap) name  *)
(* the candles of the constructed clusters; larger ones name the copies    *)
(* `copies` that a deepcopy made inside the running __add__.               *)
(***************************************************************************)
Deref(id, copies) ==
    IF id <= Len(heap) THEN heap[id] ELSE copies[id - Len(heap)]

Objects(c) == [i \in 1..Len(c.candles) |-> heap[c.candles[i]]]

(***************************************************************************)
(* CandleCluster.__init__(candsjson).  The payload arrives already parsed  *)
(* (json.loads).  An empty candle list makes standard_deviation fail, so   *)
(* no cluster comes to exist.                                              *)
(***************************************************************************)
__init__(candsjson) ==
    LET candledata == candsjson
        gran == candledata.granularity
        instrument == Replace(candledata.instrument)
        n == Len(candledata.candles)
        built == [i \in 1..n |-> Candle(candledata.candles[i], instrument, gran)]
        objs == Derive(built)
        window == Closes(LastCandles(objs))
    IN  IF EmptyInput(window)
        THEN /\ ret' = Raised("__init__", <<>>, "EmptyInputError", <<>>)
             /\ result' = <<>>
             /\ UNCHANGED <<heap, clusters, iters>>
        ELSE /\ heap' = heap \o objs
             /\ clusters' = Append(clusters,
                    [candledata |-> candledata,
                     candles |-> [i \in 1..n |-> Len(heap) + i],
                     ind |-> 0,
                     gran |-> gran,
                     instrument |-> instrument,
                     std |-> standard_deviation(window)])
             /\ ret' = Returned("__init__", <<>>, Len(clusters) + 1)
             /\ result' = <<>>
             /\ UNCHANGED iters

(***************************************************************************)
(* CandleCluster.__getitem__ and __len__.                                  *)
(***************************************************************************)
__getitem__(self, index) ==
    LET pos == ListPos(clusters[self].candles, index)
    IN  /\ ret' = IF pos = 0
                  THEN Raised("__getitem__", <<self, index>>, "IndexError", <<>>)
                  ELSE Returned("__getitem__", <<self, index>>, clusters[self].candles[pos])
        /\ result' = <<>>
        /\ UNCHANGED <<heap, clusters, iters>>

__len__(self) ==
    /\ ret' = Returned("__len__", <<self>>, Len(clusters[self].candles))
    /\ result' = <<>>
    /\ UNCHANGED <<heap, clusters, iters>>

(***************************************************************************)
(* CandleCluster.__iter__ hands out iter(self.candles): a new list         *)
(* iterator with a position of its own.  `yielded` records what the        *)
(* iterator has produced so far.                                           *)
(***************************************************************************)
__iter__(self) ==
    /\ iters' = Append(iters, [list |-> self, index |-> 0,
                               exhausted |-> FALSE, yielded |-> <<>>])
    /\ ret' = Returned("__iter__", <<self>>, Len(iters) + 1)
    /\ result' = <<>>
    /\ UNCHANGED <<heap, clusters>>

(***************************************************************************)
(* next(it) on a list iterator: the item at its position, or               *)
(* StopIteration, after which the iterator stays exhausted.                *)
(***************************************************************************)
\* SharedCursor: the position kept on the cluster (its ind) instead of on the
\* iterator.
SharedCursor(it) == clusters[it.list].ind

Cursor(it) == it.index

ListIterHasNext(it, list) == ~it.exhausted /\ Cursor(it) < Len(list)

listiter_next(k) ==
    LET it == iters[k]
        list == clusters[it.list].candles
    IN  /\ IF ListIterHasNext(it, list)
           THEN /\ iters' = [iters EXCEPT ![k] =
                        [@ EXCEPT !.index = Cursor(it) + 1,
                                  !.yielded = Append(it.yielded, list[Cursor(it) + 1])]]
                /\ ret' = Returned("next", <<k>>, list[Cursor(it) + 1])
           ELSE /\ iters' = [iters EXCEPT ![k] = [@ EXCEPT !.exhausted = TRUE]]
                /\ ret' = Raised("next", <<k>>, "StopIteration", <<>>)
        /\ result' = <<>>
        /\ UNCHANGED <<heap, clusters>>

(***************************************************************************)
(* A traversal is abandoned: its iterator is dropped.                      *)
(***************************************************************************)
RemoveAt(s, k) == [i \in 1..(Len(s) - 1) |-> IF i < k THEN s[i] ELSE s[i + 1]]

listiter_drop(k) ==
    /\ iters' = RemoveAt(iters, k)
    /\ ret' = NoCall
    /\ result' = <<>>
    /\ UNCHANGED <<heap, clusters>>

(***************************************************************************)
(* CandleCluster.__next__: the manual cursor.                              *)
(***************************************************************************)
__next__(self) ==
    /\ clusters' = [clusters EXCEPT ![self] = [@ EXCEPT !.ind = @ + 1]]
    /\ ret' = Returned("__next__", <<self>>, clusters[self].ind)
    /\ result' = <<>>
    /\ UNCHANGED <<heap, iters>>

(***************************************************************************)
(* `for candle in <cluster>: target.append(candle)`: the for loop asks     *)
(* __iter__ for a list iterator and appends what it yields until it stops. *)
(***************************************************************************)
NewIter(self) == [list |-> self, index |-> 0, exhausted |-> FALSE, yielded |-> <<>>]

RECURSIVE AppendAll(_, _, _)
AppendAll(target, list, it) ==
    IF ListIterHasNext(it, list)
    THEN AppendAll(Append(target, list[Cursor(it) + 1]), list,
                   [it EXCEPT !.index = Cursor(it) + 1])
    ELSE target

(***************************************************************************)
(* copy.deepcopy(b) inside __add__: a new CandleCluster object whose       *)
(* candle list holds new Candle objects, copies of b's.  WithCopy is the   *)
(* object store once the copy exists, deepcopy the reference to it.        *)
(***************************************************************************)
WithCopy(b) ==
    Append(clusters,
           [clusters[b] EXCEPT !.candles =
                [i \in 1..Len(clusters[b].candles) |-> Len(heap) + i]])

\* Alias: `result = b` in place of the deep copy.
Alias(b) == b

deepcopy(b) == Len(clusters) + 1

(***************************************************************************)
(* CandleCluster.__add__(self, b).  `result` is bound only on the two      *)
(* ordered paths, and the method ends in a bare `return` on every path     *)
(* that does not raise.                                                    *)
(***************************************************************************)
Concatenated(first, second) ==
    LET r == deepcopy(first)
        store == [WithCopy(first) EXCEPT ![r].candles =
                     AppendAll(@, clusters[second].candles, NewIter(second))]
    IN  [store |-> store, result |-> r, copies |-> Objects(clusters[first])]

FirstTime(c) == heap[clusters[c].candles[ListPos(clusters[c].candles, 0)]].time

LastTime(c) == heap[clusters[c].candles[ListPos(clusters[c].candles, -1)]].time

\* SameGranularity: the guard of __add__ comparing the wrong field.
SameGranularity(self, b) == clusters[self].gran = clusters[b].gran

SameInstrument(self, b) == clusters[self].instrument = clusters[b].instrument

__add__(self, b) ==
    IF ~SameInstrument(self, b)
    THEN /\ ret' = Raised("__add__", <<self, b>>, "ClusterConcatException",
                          <<clusters[self].instrument, clusters[b].instrument>>)
         /\ result' = <<>>
         /\ UNCHANGED <<heap, clusters, iters>>
    ELSE IF ListPos(clusters[self].candles, 0) = 0 \/ ListPos(clusters[b].candles, -1) = 0
    THEN /\ ret' = Raised("__add__", <<self, b>>, "IndexError", <<>>)
         /\ result' = <<>>
         /\ UNCHANGED <<heap, clusters, iters>>
    ELSE IF FirstTime(self) > LastTime(b)
    THEN LET c == Concatenated(b, self)
         IN  /\ clusters' = SubSeq(c.store, 1, Len(clusters))
             /\ result' = <<[obj |-> c.store[c.result], copies |-> c.copies]>>
             /\ ret' = ReturnedNone("__add__", <<self, b>>)
             /\ UNCHANGED <<heap, iters>>
    ELSE IF FirstTime(b) > LastTime(self)
    THEN LET c == Concatenated(self, b)
         IN  /\ clusters' = SubSeq(c.store, 1, Len(clusters))
             /\ result' = <<[obj |-> c.store[c.result], copies |-> c.copies]>>
             /\ ret' = ReturnedNone("__add__", <<self, b>>)
             /\ UNCHANGED <<heap, iters>>
    ELSE /\ ret' = ReturnedNone("__add__", <<self, b>>)
         /\ result' = <<>>
         /\ UNCHANGED <<heap, clusters, iters>>

(***************************************************************************)
(* CandleCluster.history(valuex, valuey).  getattr fails on the first      *)
(* candle it is tried on, so a cluster without candles never fails.        *)
(***************************************************************************)
Truthy(v) == v # None /\ v # ""

getattr(candle, name) == candle[name]

GetattrError(name) ==
    IF name = None THEN "TypeError"
    ELSE IF name \notin Attributes THEN "AttributeError"
    ELSE None

\* ColumnReversed: the column collected back to front.
ColumnReversed(cs, name) == [i \in 1..Len(cs) |-> cs[Len(cs) + 1 - i][name]]

Column(cs, name) == [i \in 1..Len(cs) |-> getattr(cs[i], name)]

history(self, valuex, valuey) ==
    LET cs == Objects(clusters[self])
    IN  /\ ret' =
              IF Truthy(valuex) /\ Truthy(valuey)
              THEN IF cs # <<>> /\ GetattrError(valuex) # None
                   THEN Raised("history", <<self, valuex, valuey>>, GetattrError(valuex), <<valuex>>)
                   ELSE IF cs # <<>> /\ GetattrError(valuey) # None
                   THEN Raised("history", <<self, valuex, valuey>>, GetattrError(valuey), <<valuey>>)
                   ELSE Returned("history", <<self, valuex, valuey>>,
                                 <<Column(cs, valuex), Column(cs, valuey)>>)
              ELSE IF ~Truthy(valuey)
              THEN IF cs # <<>> /\ GetattrError(valuex) # None
                   THEN Raised("history", <<self, valuex, valuey>>, GetattrError(valuex), <<valuex>>)
                   ELSE Returned("history", <<self, valuex, valuey>>, Column(cs, valuex))
              ELSE ReturnedNone("history", <<self, valuex, valuey>>)
        /\ result' = <<>>
        /\ UNCHANGED <<heap, clusters, iters>>

(***************************************************************************)
(* The payloads the clusters are built from.  A raw candle record has the  *)
(* shape the API sends: mid prices, the `complete` string, a timestamp     *)
(* (seconds, and the sub-second and timezone suffix) and a volume.         *)
(***************************************************************************)
Raw(t, c) ==
    [mid |-> [o |-> 2, c |-> c, l |-> 1, h |-> 3],
     complete |-> IF t % 2 = 1 THEN "true" ELSE "false",
     time |-> [stamp |-> t, suffix |-> t % 2],
     volume |-> 10 * t]

WideRaw(t, c) ==
    [mid |-> [o |-> 2, c |-> c, l |-> 1, h |-> 1234567],
     complete |-> "True",
     time |-> [stamp |-> t, suffix |-> 5],
     volume |-> 0]

Payload(gran, ins, start, closes) ==
    [granularity |-> gran,
     instrument |-> ins,
     candles |-> [i \in 1..Len(closes) |-> Raw(start + i - 1, closes[i])]]

Instruments == {<<"A", "/", "B">>, <<"A", "/", "C">>}

SeqsUpTo(n, S) == UNION {[1..k -> S] : k \in 0..n}

Zig(t) == <<2, 1, 3>>[(t % 3) + 1]

ZigCloses(start, n) == [i \in 1..n |-> Zig(start + i - 1)]

Fill(k) == [i \in 1..k |-> 2]

ConcatPayloads ==
    {Payload("M1", ins, start, ZigCloses(start, n)) :
        ins \in Instruments, start \in 1..MaxStart, n \in 0..MaxLen}
    \cup {Payload("M5", <<"A", "_", "B">>, MaxStart + 1, ZigCloses(MaxStart + 1, 1))}

ShortPayloads ==
    {Payload("H1", <<"A", "/", "B">>, 1, closes) :
        closes \in SeqsUpTo(MaxDeriveLen, 1..MaxClose)}

LongPayloads ==
    {Payload("H1", <<"A", "/", "B">>, 1, head \o Fill(k)) :
        head \in SeqsUpTo(MaxHead, {1, 3}),
        k \in {0} \cup (Window - 1)..(Window + MaxExtra)}

WidePayload ==
    [granularity |-> "D",
     instrument |-> <<"A", "/", "B">>,
     candles |-> <<Raw(1, 1), WideRaw(2, 3)>>]

DerivePayloads == ShortPayloads \cup {WidePayload}

IterPayloads ==
    {Payload("M1", <<"A", "/", "B">>, 1, ZigCloses(1, n)) : n \in 0..MaxIterLen}

FieldNames == {None, "", "close", "volume", "is_bull", "granularity"}

(***************************************************************************)
(* The state before any cluster is constructed.                            *)
(***************************************************************************)
Init ==
    /\ heap = <<>>
    /\ clusters = <<>>
    /\ iters = <<>>
    /\ result = <<>>
    /\ ret = NoCall

(***************************************************************************)
(* One call of a client: any operation, on any constructed cluster or      *)
(* live iterator, with arguments from the given sets.                      *)
(***************************************************************************)
Call(payloads, maxClusters, maxIters, indices, fields) ==
    \/ \E p \in payloads : Len(clusters) < maxClusters /\ __init__(p)
    \/ \E c \in DOMAIN clusters, i \in indices : __getitem__(c, i)
    \/ \E c \in DOMAIN clusters : __len__(c)
    \/ \E c \in DOMAIN clusters : Len(iters) < maxIters /\ __iter__(c)
    \/ \E k \in DOMAIN iters : listiter_next(k)
    \/ \E k \in DOMAIN iters : listiter_drop(k)
    \/ \E c \in DOMAIN clusters : clusters[c].ind < MaxInd /\ __next__(c)
    \/ \E a \in DOMAIN clusters, b \in DOMAIN clusters : __add__(a, b)
    \/ \E c \in DOMAIN clusters, x \in fields, y \in fields : history(c, x, y)

Next == Call(ConcatPayloads, MaxClusters, MaxIters, -MaxIndex..MaxIndex, {None, "close"})

Spec == Init /\ [][Next]_vars

NextDerive == Call(DerivePayloads, MaxSolo, MaxIters, -MaxIndex..MaxIndex, FieldNames)

SpecDerive == Init /\ [][NextDerive]_vars

NextStd == Call(LongPayloads, MaxSolo, MaxIters, -MaxIndex..MaxIndex, {None, "close"})

SpecStd == Init /\ [][NextStd]_vars

NextIter == Call(IterPayloads, MaxClusters, MaxNested, {0}, {None, "close"})

SpecIter == Init /\ [][NextIter]_vars

(***************************************************************************)
(* Vocabulary of the properties.                                           *)
(***************************************************************************)
Ids(c) == {c.candles[i] : i \in 1..Len(c.candles)}

Times(c) == [i \in 1..Len(c.candles) |-> heap[c.candles[i]].time]

Precedes(a, b) == Times(a)[Len(a.candles)] < Times(b)[1]

ResultObjects ==
    [i \in 1..Len(result[1].obj.candles) |->
        Deref(result[1].obj.candles[i], result[1].copies)]

Min(m, n) == IF m < n THEN m ELSE n

(***************************************************************************)
(* C1: for two clusters of one instrument, one strictly before the other   *)
(* in time, a + b and b + a both return a new cluster whose candles are    *)
(* the earlier cluster's followed by the later cluster's.                  *)
(***************************************************************************)
C1_OrderedConcatReturnsMerged ==
    ret.op = "__add__" =>
        LET a == clusters[ret.args[1]]
            b == clusters[ret.args[2]]
            earlier == IF Precedes(a, b) THEN a ELSE b
            later == IF Precedes(a, b) THEN b ELSE a
        IN  (a.instrument = b.instrument /\ (Precedes(a, b) \/ Precedes(b, a))) =>
                /\ ret.kind = "return"
                /\ ret.val # <<>>
                /\ result # <<>>
                /\ ResultObjects = Objects(earlier) \o Objects(later)

(***************************************************************************)
(* C2: concatenating two clusters whose instruments differ raises          *)
(* ClusterConcatException carrying both instruments, whatever the candle   *)
(* times are, and builds no result.                                        *)
(***************************************************************************)
C2_DifferentInstrumentsRaise ==
    ret.op = "__add__" =>
        LET a == clusters[ret.args[1]]
            b == clusters[ret.args[2]]
        IN  a.instrument # b.instrument =>
                /\ ret.kind = "raise"
                /\ ret.exc = "ClusterConcatException"
                /\ ret.val = <<a.instrument, b.instrument>>
                /\ result = <<>>

C2_Witness ==
    /\ ret.op = "__add__"
    /\ ret.exc = "ClusterConcatException"
    /\ clusters[ret.args[1]].instrument # clusters[ret.args[2]].instrument
    /\ Precedes(clusters[ret.args[1]], clusters[ret.args[2]])

(***************************************************************************)
(* C3: concatenating two clusters of one instrument that overlap in time   *)
(* raises UnorderedClusterError and never returns normally.                *)
(***************************************************************************)
C3_OverlapRaisesUnordered ==
    ret.op = "__add__" =>
        LET a == clusters[ret.args[1]]
            b == clusters[ret.args[2]]
        IN  (a.instrument = b.instrument /\ ~Precedes(a, b) /\ ~Precedes(b, a)) =>
                /\ ret.kind = "raise"
                /\ ret.exc = "UnorderedClusterError"

(***************************************************************************)
(* C4: in every constructed cluster the first candle has is_bull and       *)
(* is_bear unset, and every later candle has is_bull true exactly when its *)
(* close is strictly above the previous close, and is_bear the negation.   *)
(***************************************************************************)
C4_BullBear ==
    \A c \in DOMAIN clusters :
        LET cs == Objects(clusters[c])
        IN  /\ cs[1].is_bull = None
            /\ cs[1].is_bear = None
            /\ \A i \in 2..Len(cs) :
                   /\ cs[i].is_bull \in {True, False}
                   /\ cs[i].is_bull = True <=> cs[i].close > cs[i - 1].close
                   /\ cs[i].is_bear = (IF cs[i].is_bull = True THEN False ELSE True)

C4_Witness ==
    \E c \in DOMAIN clusters :
        LET cs == Objects(clusters[c])
        IN  /\ Len(cs) >= 3
            /\ cs[2].close = cs[1].close
            /\ cs[2].is_bull = False
            /\ cs[2].is_bear = True
            /\ cs[3].is_bull = True

(***************************************************************************)
(* C5: in every constructed cluster reversal is unset on the first candle  *)
(* and on every later candle tells whether its is_bull differs from the    *)
(* previous candle's, the unset is_bull of the first candle included.      *)
(***************************************************************************)
C5_Reversal ==
    \A c \in DOMAIN clusters :
        LET cs == Objects(clusters[c])
        IN  /\ cs[1].reversal = None
            /\ \A i \in 2..Len(cs) :
                   cs[i].reversal = PyBool(cs[i].is_bull # cs[i - 1].is_bull)

C5_Witness ==
    \E c \in DOMAIN clusters :
        LET cs == Objects(clusters[c])
        IN  /\ Len(cs) >= 3
            /\ cs[2].is_bull = False
            /\ cs[2].reversal = True
            /\ cs[3].is_bull = False
            /\ cs[3].reversal = False

(***************************************************************************)
(* C6: the std of every constructed cluster of N candles is, at all times, *)
(* the standard deviation of the closes of its last min(30, N) candles,    *)
(* and is 0 when N = 1.                                                    *)
(***************************************************************************)
C6_StdOverLastThirty ==
    \A c \in DOMAIN clusters :
        LET cs == Objects(clusters[c])
            n == Len(cs)
            k == Min(30, n)
            lastk == [i \in 1..k |-> cs[n - k + i].close]
        IN  /\ n >= 1
            /\ clusters[c].std = standard_deviation(lastk)
            /\ n = 1 => clusters[c].std = 0

C6_Witness ==
    \E c \in DOMAIN clusters :
        LET cs == Objects(clusters[c])
        IN  /\ Len(cs) > 30
            /\ cs[1].close # cs[Len(cs)].close
            /\ clusters[c].std = 0
            /\ ret.op = "history"

(***************************************************************************)
(* C7: every traversal yields the candles of its cluster in order, each    *)
(* once, and the whole sequence by the time it ends, however other         *)
(* traversals of the same cluster and the manual cursor are interleaved    *)
(* with it.                                                                *)
(***************************************************************************)
C7_TraversalsIndependent ==
    \A k \in DOMAIN iters :
        LET it == iters[k]
            list == clusters[it.list].candles
        IN  /\ Len(it.yielded) <= Len(list)
            /\ it.yielded = SubSeq(list, 1, Len(it.yielded))
            /\ it.exhausted => it.yielded = list

C7_Witness ==
    \E j \in DOMAIN iters, k \in DOMAIN iters :
        /\ j # k
        /\ iters[j].list = iters[k].list
        /\ Len(clusters[iters[j].list].candles) >= 2
        /\ iters[j].exhausted
        /\ iters[j].yielded = clusters[iters[j].list].candles
        /\ Len(iters[k].yielded) = 1
        /\ clusters[iters[j].list].ind > 0

(***************************************************************************)
(* C8, as stated: history(x) returns attribute x of every candle in        *)
(* cluster order, history(x, y) the pair of such sequences, and a field    *)
(* name that is not a Candle attribute fails with UnknownAttributeError.   *)
(***************************************************************************)
HistoryReturns(c, x, y) ==
    LET cs == Objects(clusters[c])
        colx == [i \in 1..Len(cs) |-> cs[i][x]]
    IN  /\ (x \in Attributes /\ y = None) =>
               /\ ret.kind = "return"
               /\ ret.val = <<colx>>
               /\ Len(ret.val[1]) = Len(clusters[c].candles)
        /\ (x \in Attributes /\ y \in Attributes) =>
               /\ ret.kind = "return"
               /\ ret.val = << <<colx, [i \in 1..Len(cs) |-> cs[i][y]]>> >>
               /\ Len(ret.val[1][1]) = Len(clusters[c].candles)
               /\ Len(ret.val[1][2]) = Len(clusters[c].candles)

C9_NoSharedCandles ==
    /\ \A c \in DOMAIN clusters, d \in DOMAIN clusters :
           c # d => Ids(clusters[c]) \cap Ids(clusters[d]) = {}
    /\ result # <<>> =>
           \A c \in DOMAIN clusters : Ids(clusters[c]) \cap Ids(result[1].obj) = {}

(***************************************************************************)
(* C10: no step changes a constructed cluster's candle list, its Candle    *)
(* objects, its payload, instrument, granularity or std; its cursor ind    *)
(* changes only in a step of the manual __next__ on that cluster.          *)
(***************************************************************************)
C10_ImmutableAfterConstruction ==
    [][\A c \in DOMAIN clusters :
           /\ c \in DOMAIN clusters'
           /\ clusters'[c].candles = clusters[c].candles
           /\ \A i \in 1..Len(clusters[c].candles) :
                  heap'[clusters[c].candles[i]] = heap[clusters[c].candles[i]]
           /\ clusters'[c].candledata = clusters[c].candledata
           /\ clusters'[c].instrument = clusters[c].instrument
           /\ clusters'[c].gran = clusters[c].gran
           /\ clusters'[c].std = clusters[c].std
           /\ clusters'[c].ind # clusters[c].ind =>
                  (ret'.op = "__next__" /\ ret'.args = <<c>>)]_vars

C10_Witness ==
    /\ ret.op = "__add__"
    /\ result # <<>>
    /\ clusters[ret.args[1]].ind > 0
    /\ iters # <<>>

=============================================================================
